---- MODULE Spec2Model ----
(***************************************************************************)
(* Breadth-first simulation of a nondeterministic Turing machine, as       *)
(* implemented by simulate_ntm in Tracing_PabloOlivaQuintana.py (policy    *)
(* "Eager": accept and reject both return) and in FinalTracing.py (policy  *)
(* "Exhaustive": accept returns, reject only skips the configuration).     *)
(* Tapes are Python strings, modelled as sequences of one-character        *)
(* symbols.                                                                *)
(***************************************************************************)
EXTENDS Integers, Sequences, FiniteSets, TLC

\* ------------------------------------------------------------------ bounds
MaxDepth == 3

MaxInputLen == 2

MaxTrans == 2

\* depth bounds tried on the scenario machines, which do not branch
ScenarioDepth == 6

\* ------------------------------------------------- machine definitions
Blank == "_"

InputAlphabet == {"a", "b"}

Policies == {"Eager", "Exhaustive"}

StartStates == {"q0", "qacc", "qrej"}

Transition(cs, sym, ns, w, d) ==
    [current_state |-> cs, input_symbol |-> sym, next_state |-> ns,
     write_symbol |-> w, move_direction |-> d]

\* Rows 8.. of a machine's CSV file: the transition rules machines are built of.
TransitionPool ==
    { Transition("q0", "a", "q0", "a", "R"),
      Transition("q0", "a", "q1", "b", "R"),
      Transition("q0", "a", "qrej", "a", "R"),
      Transition("q0", "b", "q1", "a", "L"),
      Transition("q0", "_", "q0", "_", "R"),
      Transition("q0", "_", "qacc", "_", "R"),
      Transition("q1", "a", "q1", "a", "L"),
      Transition("q1", "b", "qacc", "b", "S") }

SeqsUpTo(S, n) == UNION { [1..k -> S] : k \in 0..n }

\* A machine whose reject state has an outgoing rule, next to a live branch.
RejectBranchTransitions ==
    << Transition("q0", "a", "qrej", "a", "R"),
       Transition("q0", "a", "q0", "a", "R"),
       Transition("qrej", "a", "q0", "a", "R") >>

TransitionLists == SeqsUpTo(TransitionPool, MaxTrans) \cup {RejectBranchTransitions}

Machines ==
    [start_state : StartStates, accept_state : {"qacc"}, reject_state : {"qrej"},
     transitions : TransitionLists]

Inputs == SeqsUpTo(InputAlphabet, MaxInputLen)

\* a_plus.csv, the machine FinalTracing.py loads: one or more "a". Its accept
\* state is the state its last rule enters, or q1.
APlusTransitions ==
    << Transition("q0", "a", "q1", "a", "R"),
       Transition("q1", "a", "q1", "a", "R"),
       Transition("q1", "_", "qaccept", "_", "R") >>

APlusMachines ==
    [start_state : {"q0"}, accept_state : {"qaccept", "q1"}, reject_state : {"qr"},
     transitions : {APlusTransitions}]

\* a machine that loops in q0 on every "a" and on the blank
SelfLoopTransitions ==
    << Transition("q0", "a", "q0", "a", "R"),
       Transition("q0", "_", "q0", "_", "R") >>

SelfLoopMachines ==
    [start_state : {"q0"}, accept_state : {"qacc"}, reject_state : {"qrej"},
     transitions : {SelfLoopTransitions}]

ScenarioMachines == APlusMachines \cup SelfLoopMachines

\* the input "aaa" of both scripts, next to the short inputs
ScenarioInputs == Inputs \cup {<<"a", "a", "a">>}

\* ------------------------------------------------------- Configuration
Configuration(left, state, right) == [left |-> left, state |-> state, right |-> right]

NoConfig == Configuration(<<>>, "", <<>>)

\* the head symbol read without the blank default: config.right[:1]
HeadSymbolNoBlank(c) == IF c.right # <<>> THEN c.right[1] ELSE ""

\* (config.right or "_")[0]
HeadSymbol(c) == IF c.right # <<>> THEN c.right[1] ELSE Blank

\* config.right[1:] if len(config.right) > 1 else ""
RestOfRight(c) == IF Len(c.right) > 1 THEN SubSeq(c.right, 2, Len(c.right)) ELSE <<>>

\* the match test on the state alone, the head symbol ignored
MatchesStateOnly(c, t) == c.state = t.current_state

\* the condition of the if inside the loop over ntm["transitions"]
Matches(c, t) == c.state = t.current_state /\ HeadSymbol(c) = t.input_symbol

\* config.left + (config.right[0] if config.right else "_")
NewLeft(c, t) == Append(c.left, IF c.right # <<>> THEN c.right[1] ELSE Blank)

\* (config.right[1:] if len(config.right) > 1 else "") + "_"
NewRight(c, t) == Append(RestOfRight(c), Blank)

\* new_left[:-1]
DropLast(s) == SubSeq(s, 1, Len(s) - 1)

\* the successor left in the state of its predecessor
SuccessorStaysInState(c, t) ==
    IF t.move_direction = "L"
    THEN Configuration(DropLast(NewLeft(c, t)), c.state,
                       <<NewLeft(c, t)[Len(NewLeft(c, t))]>> \o NewRight(c, t))
    ELSE Configuration(NewLeft(c, t), c.state, NewRight(c, t))

\* the direction test turned around: Right only for "R", Left for the rest
SuccessorLeftUnlessR(c, t) ==
    IF t.move_direction # "R"
    THEN Configuration(DropLast(NewLeft(c, t)), t.next_state,
                       <<NewLeft(c, t)[Len(NewLeft(c, t))]>> \o NewRight(c, t))
    ELSE Configuration(NewLeft(c, t), t.next_state, NewRight(c, t))

\* the Left move that pops the cell and forgets to prepend it to the right
SuccessorLeftDropsCell(c, t) ==
    IF t.move_direction = "L"
    THEN Configuration(DropLast(NewLeft(c, t)), t.next_state, NewRight(c, t))
    ELSE Configuration(NewLeft(c, t), t.next_state, NewRight(c, t))

\* the configuration appended to the queue for a matching transition
Successor(c, t) ==
    IF t.move_direction = "L"
    THEN Configuration(DropLast(NewLeft(c, t)), t.next_state,
                       <<NewLeft(c, t)[Len(NewLeft(c, t))]>> \o NewRight(c, t))
    ELSE Configuration(NewLeft(c, t), t.next_state, NewRight(c, t))

\* ----------------------------------------------------------------- state
VARIABLES policy, ntm, input_string, max_depth,
          queue, steps, explored, current_level, i, config, ti, pc, result

vars == <<policy, ntm, input_string, max_depth,
          queue, steps, explored, current_level, i, config, ti, pc, result>>

args == <<policy, ntm, input_string, max_depth>>

Init ==
    /\ policy \in Policies
    /\ \/ /\ ntm \in Machines
          /\ input_string \in Inputs
          /\ max_depth \in 0..MaxDepth
       \/ /\ ntm \in ScenarioMachines
          /\ input_string \in ScenarioInputs
          /\ max_depth \in 0..ScenarioDepth
    /\ queue = <<Configuration(<<>>, ntm.start_state, input_string)>>
    /\ steps = 0
    /\ explored = <<>>
    /\ current_level = 0
    /\ i = 0
    /\ config = NoConfig
    /\ ti = 0
    /\ pc = "while"
    /\ result = "none"

\* the loop test without the depth bound: while queue
LoopGuardUnbounded == queue # <<>>

\* the loop test with the comparison off by one
LoopGuardOffByOne == queue # <<>> /\ steps <= max_depth

\* while queue and steps < max_depth
LoopGuard == queue # <<>> /\ steps < max_depth

\* the while test succeeds: current_level = len(queue), the for loop starts
EnterLevel ==
    /\ pc = "while"
    /\ LoopGuard
    /\ current_level' = Len(queue)
    /\ i' = 0
    /\ pc' = "for"
    /\ UNCHANGED <<args, queue, steps, explored, config, ti, result>>

\* the return after the loop, reporting an empty frontier as a rejection
ReturnTimedOutAsReject ==
    /\ pc = "while"
    /\ ~LoopGuard
    /\ pc' = "done"
    /\ result' = IF queue = <<>> THEN "reject" ELSE "timed out"
    /\ UNCHANGED <<args, queue, steps, explored, current_level, i, config, ti>>

\* the while test fails: the return after the loop
ReturnTimedOut ==
    /\ pc = "while"
    /\ ~LoopGuard
    /\ pc' = "done"
    /\ result' = "timed out"
    /\ UNCHANGED <<args, queue, steps, explored, current_level, i, config, ti>>

\* the frontier kept as an unordered collection: any waiting configuration is taken
DequeueAny ==
    /\ pc = "for"
    /\ i < current_level
    /\ \E k \in 1..Len(queue) :
          /\ config' = queue[k]
          /\ queue' = SubSeq(queue, 1, k - 1) \o SubSeq(queue, k + 1, Len(queue))
          /\ explored' = Append(explored, queue[k])
    /\ i' = i + 1
    /\ pc' = "check"
    /\ UNCHANGED <<args, steps, current_level, ti, result>>

\* the for loop run on the live queue instead of the snapshot current_level
DequeueWhileQueued ==
    /\ pc = "for"
    /\ queue # <<>>
    /\ config' = Head(queue)
    /\ queue' = Tail(queue)
    /\ explored' = Append(explored, Head(queue))
    /\ i' = i + 1
    /\ pc' = "check"
    /\ UNCHANGED <<args, steps, current_level, ti, result>>

\* config = queue.popleft(); explored.append(config)
Dequeue ==
    /\ pc = "for"
    /\ i < current_level
    /\ config' = Head(queue)
    /\ queue' = Tail(queue)
    /\ explored' = Append(explored, Head(queue))
    /\ i' = i + 1
    /\ pc' = "check"
    /\ UNCHANGED <<args, steps, current_level, ti, result>>

\* the accepting return that counts the level it stopped in
ReturnAcceptCountsLevel ==
    /\ pc = "check"
    /\ config.state = ntm.accept_state
    /\ pc' = "done"
    /\ result' = "accept"
    /\ steps' = steps + 1
    /\ UNCHANGED <<args, queue, explored, current_level, i, config, ti>>

\* if config.state == ntm["accept_state"]: return
ReturnAccept ==
    /\ pc = "check"
    /\ config.state = ntm.accept_state
    /\ pc' = "done"
    /\ result' = "accept"
    /\ UNCHANGED <<args, queue, steps, explored, current_level, i, config, ti>>

\* Tracing with the reject test of FinalTracing: continue instead of return
ReturnRejectContinues ==
    /\ pc = "check"
    /\ policy = "Eager"
    /\ config.state # ntm.accept_state
    /\ config.state = ntm.reject_state
    /\ pc' = "for"
    /\ UNCHANGED <<args, queue, steps, explored, current_level, i, config, ti, result>>

\* Tracing: if config.state == ntm["reject_state"]: return
ReturnReject ==
    /\ pc = "check"
    /\ policy = "Eager"
    /\ config.state # ntm.accept_state
    /\ config.state = ntm.reject_state
    /\ pc' = "done"
    /\ result' = "reject"
    /\ UNCHANGED <<args, queue, steps, explored, current_level, i, config, ti>>

\* FinalTracing with the reject test of Tracing: return instead of continue
SkipRejectStops ==
    /\ pc = "check"
    /\ policy = "Exhaustive"
    /\ config.state # ntm.accept_state
    /\ config.state = ntm.reject_state
    /\ pc' = "done"
    /\ result' = "reject"
    /\ UNCHANGED <<args, queue, steps, explored, current_level, i, config, ti>>

\* FinalTracing: elif config.state == ntm["reject_state"]: continue
SkipReject ==
    /\ pc = "check"
    /\ policy = "Exhaustive"
    /\ config.state # ntm.accept_state
    /\ config.state = ntm.reject_state
    /\ pc' = "for"
    /\ UNCHANGED <<args, queue, steps, explored, current_level, i, config, ti, result>>

\* neither test holds: the loop over ntm["transitions"] starts
BeginTransitions ==
    /\ pc = "check"
    /\ config.state # ntm.accept_state
    /\ config.state # ntm.reject_state
    /\ ti' = 1
    /\ pc' = "trans"
    /\ UNCHANGED <<args, queue, steps, explored, current_level, i, config, result>>

\* a matching transition applied twice
FireTransitionTwice ==
    /\ pc = "trans"
    /\ ti <= Len(ntm.transitions)
    /\ Matches(config, ntm.transitions[ti])
    /\ queue' = queue \o << Successor(config, ntm.transitions[ti]),
                            Successor(config, ntm.transitions[ti]) >>
    /\ ti' = ti + 1
    /\ UNCHANGED <<args, steps, explored, current_level, i, config, pc, result>>

\* a matching transition followed by a break: later rules are not tried
FireTransitionBreak ==
    /\ pc = "trans"
    /\ ti <= Len(ntm.transitions)
    /\ Matches(config, ntm.transitions[ti])
    /\ queue' = Append(queue, Successor(config, ntm.transitions[ti]))
    /\ ti' = Len(ntm.transitions) + 1
    /\ UNCHANGED <<args, steps, explored, current_level, i, config, pc, result>>

\* one transition of the loop matches: its successor is appended to the queue
FireTransition ==
    /\ pc = "trans"
    /\ ti <= Len(ntm.transitions)
    /\ Matches(config, ntm.transitions[ti])
    /\ queue' = Append(queue, Successor(config, ntm.transitions[ti]))
    /\ ti' = ti + 1
    /\ UNCHANGED <<args, steps, explored, current_level, i, config, pc, result>>

\* one transition of the loop does not match
PassTransition ==
    /\ pc = "trans"
    /\ ti <= Len(ntm.transitions)
    /\ ~Matches(config, ntm.transitions[ti])
    /\ ti' = ti + 1
    /\ UNCHANGED <<args, queue, steps, explored, current_level, i, config, pc, result>>

\* the loop over the transitions is exhausted: next iteration of the for loop
EndTransitions ==
    /\ pc = "trans"
    /\ ti > Len(ntm.transitions)
    /\ pc' = "for"
    /\ UNCHANGED <<args, queue, steps, explored, current_level, i, config, ti, result>>

\* the for loop is exhausted: steps += 1
EndLevel ==
    /\ pc = "for"
    /\ i >= current_level
    /\ steps' = steps + 1
    /\ pc' = "while"
    /\ UNCHANGED <<args, queue, explored, current_level, i, config, ti, result>>

Next ==
    \/ EnterLevel
    \/ ReturnTimedOut
    \/ Dequeue
    \/ ReturnAccept
    \/ ReturnReject
    \/ SkipReject
    \/ BeginTransitions
    \/ FireTransition
    \/ PassTransition
    \/ EndTransitions
    \/ EndLevel

Spec == Init /\ [][Next]_vars

\* The interpreter runs the single thread until it returns.
FairSpec == Spec /\ WF_vars(Next)

\* ------------------------------------------------------------- helpers
Last(s) == s[Len(s)]

\* the whole tape of a configuration, left edge first
Tape(c) == c.left \o c.right

IsTerminal(c) == c.state = ntm.accept_state \/ c.state = ntm.reject_state

NoneTerminal(s) == \A k \in 1..Len(s) : ~IsTerminal(s[k])

\* the transition the loop over ntm["transitions"] is looking at
CurrentTransition == ntm.transitions[ti]

\* ------------------------------------------------------------------ C1
\* C1: every fired transition leaves its write_symbol in the cell that was
\* under the head of the dequeued configuration; on a move that is not Left
\* the successor's left is the old left followed by write_symbol.
C1_WriteSymbolOnTape ==
    [][FireTransition =>
        /\ Tape(Last(queue'))[Len(config.left) + 1] = CurrentTransition.write_symbol
        /\ CurrentTransition.move_direction # "L" =>
              Last(queue').left = Append(config.left, CurrentTransition.write_symbol)]_vars

\* ------------------------------------------------------------------ C2
\* C2: a Left transition fired from a configuration with a non-empty left
\* moves the head one cell to the left: the successor's left is the old left
\* without its last element, and the successor's right starts with it.
C2_LeftMoveShiftsHead ==
    [][(FireTransition /\ CurrentTransition.move_direction = "L" /\ config.left # <<>>) =>
        /\ Last(queue').left = DropLast(config.left)
        /\ Last(queue').right[1] = Last(config.left)]_vars

\* ------------------------------------------------------------------ C3
\* C3: a run that ends timed out has processed exactly max_depth levels and
\* has dequeued no accepting configuration.
C3_TimedOutMeansBoundReached ==
    (pc = "done" /\ result = "timed out") =>
        /\ steps = max_depth
        /\ \A k \in 1..Len(explored) : explored[k].state # ntm.accept_state

\* ------------------------------------------------------------------ C4
\* C4: in every state of a run, and in its result, the level counter steps is
\* at most the depth bound max_depth.
C4_StepsWithinBound == steps <= max_depth

\* a run that processed every level the bound allows, with work left over
C4_Witness == pc = "done" /\ max_depth > 0 /\ steps = max_depth /\ queue # <<>>

\* ------------------------------------------------------------------ C5
\* levels the depth bound still allows
DepthLeft == IF steps < max_depth THEN max_depth - steps ELSE 0

\* position of the run: levels left, configurations left in the level,
\* work left on the dequeued configuration
Measure ==
    CASE pc = "done"  -> <<0, 0, 0>>
      [] pc = "while" -> <<2 * DepthLeft + 2, 0, 0>>
      [] pc = "for"   -> <<2 * DepthLeft + 1, current_level - i, 0>>
      [] pc = "check" -> <<2 * DepthLeft + 1, current_level - i, Len(ntm.transitions) + 3>>
      [] pc = "trans" -> <<2 * DepthLeft + 1, current_level - i, Len(ntm.transitions) + 2 - ti>>

LexLess(a, b) ==
    \/ a[1] < b[1]
    \/ a[1] = b[1] /\ a[2] < b[2]
    \/ a[1] = b[1] /\ a[2] = b[2] /\ a[3] < b[3]

\* C5: for every machine, input and depth bound the run returns: it reaches
\* "done", and every step of it strictly decreases a measure over the naturals
\* (levels left under the bound, then work left in the level).
C5_Terminates ==
    /\ <>(pc = "done")
    /\ [][LexLess(Measure', Measure) /\ Measure' \in Nat \X Nat \X Nat]_vars

\* a run stopped by the bound alone: no halting state seen, frontier not empty
C5_Witness ==
    /\ pc = "done" /\ result = "timed out"
    /\ max_depth > 0 /\ steps = max_depth
    /\ queue # <<>>
    /\ NoneTerminal(explored) /\ NoneTerminal(queue)

\* ------------------------------------------------------------------ C6
\* the trace of an Eager run: a halting configuration can only be the one just
\* dequeued, and a run that returned on one reports it
C6_TraceShape ==
    /\ \A k \in 1..Len(explored) :
          IsTerminal(explored[k]) => (k = Len(explored) /\ pc \in {"check", "done"})
    /\ (pc = "done" /\ result # "timed out") =>
          /\ explored # <<>> /\ Last(explored) = config /\ IsTerminal(config)
          /\ result = (IF config.state = ntm.accept_state THEN "accept" ELSE "reject")
    /\ (pc = "done" /\ result = "timed out") => NoneTerminal(explored)

\* C6: under policy Eager the run stops at the first dequeued configuration in
\* accept_state or reject_state: it is the last trace element and the only
\* halting one, the return changes neither trace, frontier nor level counter,
\* the status follows its state, and nothing is dequeued after the return.
C6_EagerStopsAtFirstTerminal ==
    /\ [](policy = "Eager" => C6_TraceShape)
    /\ [][policy = "Eager" =>
            /\ pc # "done"
            /\ (pc = "check" /\ IsTerminal(config)) =>
                  /\ pc' = "done"
                  /\ result' = (IF config.state = ntm.accept_state THEN "accept" ELSE "reject")
                  /\ UNCHANGED <<steps, explored, queue>>]_vars

\* an Eager run stopped by a rejecting configuration with siblings still queued
C6_Witness ==
    /\ policy = "Eager" /\ pc = "done" /\ result = "reject"
    /\ Len(explored) > 1 /\ queue # <<>> /\ i < current_level

\* ------------------------------------------------------------------ C7
\* how an Exhaustive run can stand and end
C7_RunShape ==
    /\ result # "reject"
    /\ pc = "trans" => ~IsTerminal(config)
    /\ pc = "done" =>
          \/ /\ result = "accept"
             /\ explored # <<>> /\ Last(explored).state = ntm.accept_state
          \/ /\ result = "timed out"
             /\ queue = <<>> \/ steps >= max_depth
             /\ \A k \in 1..Len(explored) : explored[k].state # ntm.accept_state

\* C7: under policy Exhaustive a dequeued reject_state configuration gets no
\* successor and does not stop the run: the for loop goes on with the next
\* configuration of the level, then with the next level, and the run ends only
\* on a dequeued accept_state configuration, an empty frontier or the bound.
C7_ExhaustiveRejectClosesBranch ==
    /\ [](policy = "Exhaustive" => C7_RunShape)
    /\ [][policy = "Exhaustive" =>
            /\ (pc = "check" /\ config.state = ntm.reject_state
                             /\ config.state # ntm.accept_state) =>
                  /\ pc' = "for"
                  /\ UNCHANGED <<queue, explored, steps, current_level, i, result>>
            /\ (pc = "for" /\ i < current_level) =>
                  /\ explored' = Append(explored, Head(queue))
                  /\ pc' = "check"
            /\ (pc = "for" /\ i >= current_level) => pc' = "while"
            /\ (pc = "while" /\ queue # <<>> /\ steps < max_depth) => pc' = "for"]_vars

\* an Exhaustive run that went on after a rejecting configuration: siblings
\* and a later level were dequeued after it, and a rule matched it in vain
C7_Witness ==
    /\ policy = "Exhaustive" /\ pc = "done" /\ steps >= 2
    /\ \E k \in 1..Len(explored) :
          /\ explored[k].state = ntm.reject_state
          /\ k + 1 < Len(explored)
          /\ \E n \in 1..Len(ntm.transitions) : Matches(explored[k], ntm.transitions[n])

\* ------------------------------------------------------------------ C8
\* C8: a run reports reject only when its last dequeued configuration is in
\* reject_state and accept only when it is in accept_state; a run that ends
\* without having dequeued a halting configuration (bound reached or frontier
\* empty) reports timed out, never reject.
C8_ExhaustionIsNotRejection ==
    pc = "done" =>
        /\ result \in {"accept", "reject", "timed out"}
        /\ result = "reject" =>
              explored # <<>> /\ Last(explored).state = ntm.reject_state
        /\ result = "accept" =>
              explored # <<>> /\ Last(explored).state = ntm.accept_state
        /\ NoneTerminal(explored) => result = "timed out"

\* an Eager run whose frontier emptied before the bound
C8_Witness ==
    /\ policy = "Eager" /\ pc = "done" /\ result = "timed out"
    /\ queue = <<>> /\ steps < max_depth /\ explored # <<>>

\* ------------------------------------------------------------------ C9
\* a configuration with its right replaced by the single blank symbol
Blanked(c) == [c EXCEPT !.right = <<Blank>>]

RECURSIVE FiredSuccessors(_, _)
\* the successors of c under the first n transitions, in definition order
FiredSuccessors(c, n) ==
    IF n = 0 THEN <<>>
    ELSE IF Matches(c, ntm.transitions[n])
         THEN Append(FiredSuccessors(c, n - 1), Successor(c, ntm.transitions[n]))
         ELSE FiredSuccessors(c, n - 1)

\* C9: for a dequeued configuration with an empty right, the transitions that
\* match and the successors enqueued, in order, are those of the same
\* configuration with right = "_".
C9_EmptyRightReadsBlank ==
    (pc = "trans" /\ config.right = <<>>) =>
        /\ \A k \in 1..Len(ntm.transitions) :
              Matches(config, ntm.transitions[k])
                 <=> Matches(Blanked(config), ntm.transitions[k])
        /\ queue = FiredSuccessors(Blanked(config), ti - 1)

\* a transition on the blank fired from the initial configuration of the empty input
C9_Witness ==
    /\ pc = "trans" /\ config.right = <<>> /\ input_string = <<>>
    /\ queue # <<>>

\* ----------------------------------------------------------------- C10
\* number of transitions matching c
OutDegree(c) ==
    Cardinality({k \in 1..Len(ntm.transitions) : Matches(c, ntm.transitions[k])})

\* number of successors the run enqueues for c: none for a closed branch
ExpandedOutDegree(c) == IF c.state = ntm.reject_state THEN 0 ELSE OutDegree(c)

RECURSIVE SumOutDegree(_, _)
SumOutDegree(s, n) == IF n = 0 THEN 0 ELSE SumOutDegree(s, n - 1) + OutDegree(s[n])

RECURSIVE SumExpandedOutDegree(_, _)
SumExpandedOutDegree(s, n) ==
    IF n = 0 THEN 0 ELSE SumExpandedOutDegree(s, n - 1) + ExpandedOutDegree(s[n])

\* a level has been processed in full; current_level is its size
LevelDone == pc = "while" /\ steps >= 1

\* C10 (as stated): at the end of each fully processed level the trace holds
\* 1 + the sum of the out-degrees (matching transitions) of all configurations
\* processed in the levels before it.
C10_BranchingAccounting ==
    LevelDone =>
        Len(explored) = 1 + SumOutDegree(explored, Len(explored) - current_level)

\* C10 (amended): the same, counting no out-degree for the reject_state
\* configurations, which the run dequeues but never expands.
C10_BranchingAccountingExpanded ==
    LevelDone =>
        Len(explored) = 1 + SumExpandedOutDegree(explored, Len(explored) - current_level)

\* two levels done, with branching, and a closed branch that had a matching rule
C10_Witness ==
    /\ LevelDone /\ steps >= 2 /\ Len(explored) > steps + 1
    /\ \E k \in 1..(Len(explored) - current_level) :
          explored[k].state = ntm.reject_state /\ OutDegree(explored[k]) > 0

\* ----------------------------------------------------------------- C11
\* what the run enqueues for a dequeued configuration: nothing for a halting
\* one, else one successor per matching rule, in the order of the rules
SuccessorsOf(c) ==
    IF IsTerminal(c) THEN <<>> ELSE FiredSuccessors(c, Len(ntm.transitions))

RECURSIVE LevelSuccessors(_)
\* the successors of the first n configurations dequeued in the current level
LevelSuccessors(n) ==
    IF n = 0 THEN <<>>
    ELSE LevelSuccessors(n - 1) \o SuccessorsOf(explored[Len(explored) - i + n])

\* what the current level has enqueued so far
EnqueuedSoFar ==
    CASE pc = "check" -> LevelSuccessors(i - 1)
      [] pc = "trans" -> LevelSuccessors(i - 1) \o FiredSuccessors(config, ti - 1)
      [] pc = "done" /\ result # "timed out" -> LevelSuccessors(i - 1)
      [] OTHER -> LevelSuccessors(i)

\* C11: the part of the frontier behind the configurations still waiting in
\* the current level holds, for each configuration dequeued in the level and
\* in dequeue order, exactly one successor per matching transition, in
\* definition order; a configuration being expanded has those of the rules
\* tried so far.
C11_OneSuccessorPerMatch ==
    explored # <<>> =>
        /\ Len(queue) >= current_level - i
        /\ SubSeq(queue, current_level - i + 1, Len(queue)) = EnqueuedSoFar

\* the second configuration of a level has fired two rules, behind the
\* successors of the first
C11_Witness ==
    /\ pc = "trans" /\ ti > Len(ntm.transitions) /\ i >= 2
    /\ OutDegree(config) >= 2
    /\ LevelSuccessors(i - 1) # <<>>

\* ----------------------------------------------------------------- C12
AAA == <<"a", "a", "a">>

\* C12: the a-plus machine on "aaa" with a depth bound above 4 ends accepted
\* with at most 4 levels reported, under both policies.
C12_APlusAcceptsAAA ==
    (ntm \in APlusMachines /\ input_string = AAA /\ max_depth > 4 /\ pc = "done") =>
        result = "accept" /\ steps <= 4

\* the run that reaches qaccept after the three a's and the blank
C12_Witness ==
    /\ ntm \in APlusMachines /\ ntm.accept_state = "qaccept"
    /\ input_string = AAA /\ max_depth > 4
    /\ pc = "done" /\ result = "accept" /\ steps = 4 /\ Len(explored) = 5

\* ----------------------------------------------------------------- C13
\* C13: the a-plus machine on the empty input never dequeues an accepting
\* configuration and never ends accepted, whatever the depth bound and policy.
C13_APlusNeverAcceptsEmpty ==
    (ntm \in APlusMachines /\ input_string = <<>>) =>
        /\ \A k \in 1..Len(explored) : explored[k].state # ntm.accept_state
        /\ result # "accept"
        /\ pc = "done" => result \in {"reject", "timed out"}

\* the run on the empty input has ended, after looking at its one configuration
C13_Witness ==
    /\ ntm \in APlusMachines /\ input_string = <<>> /\ max_depth > 0
    /\ pc = "done" /\ Len(explored) = 1 /\ queue = <<>>

\* ----------------------------------------------------------------- C14
\* the self-loop machine on an input of a's: never halts, frontier never empty
SelfLoopRun ==
    /\ ntm \in SelfLoopMachines
    /\ \A k \in 1..Len(input_string) : input_string[k] = "a"

\* C14: a run of the self-loop machine with depth bound D >= 1 ends timed out
\* with exactly D levels processed and a non-empty trace.
C14_SelfLoopTimesOut ==
    (SelfLoopRun /\ max_depth >= 1 /\ pc = "done") =>
        result = "timed out" /\ steps = max_depth /\ explored # <<>>

\* the stated case: depth bound 5
C14_Witness ==
    /\ SelfLoopRun /\ max_depth = 5 /\ pc = "done"
    /\ steps = 5 /\ Len(explored) = 5 /\ queue # <<>>

\* ----------------------------------------------------------------- C15
WithDirection(t, d) == [t EXCEPT !.move_direction = d]

\* direction values a CSV row may hold besides "L" and "R"
OtherDirections == {"R", "S", "N", "", "l", "Left"}

\* C15: a transition whose move_direction is not "L" yields the successor of
\* the same transition with move_direction "R": for the rule the loop is at
\* under every other direction value, and for every successor the run enqueues.
C15_NonLeftMovesRight ==
    /\ [](pc = "trans" /\ ti <= Len(ntm.transitions) =>
            \A d \in OtherDirections :
                Successor(config, WithDirection(CurrentTransition, d))
                    = Successor(config, WithDirection(CurrentTransition, "R")))
    /\ [][(FireTransition /\ CurrentTransition.move_direction # "L") =>
            Last(queue') = Configuration(Append(config.left, HeadSymbol(config)),
                                         CurrentTransition.next_state,
                                         Append(RestOfRight(config), Blank))]_vars

\* the rule with direction "S" has fired
C15_Witness ==
    /\ pc = "trans" /\ ti > 1
    /\ ntm.transitions[ti - 1].move_direction = "S"
    /\ Matches(config, ntm.transitions[ti - 1])
    /\ queue # <<>> /\ Last(queue).state = ntm.transitions[ti - 1].next_state

\* ----------------------------------------------------------------- C16
\* the locals of simulate_ntm, with the variant that runs
RunState ==
    [policy |-> policy, queue |-> queue, steps |-> steps, explored |-> explored,
     current_level |-> current_level, i |-> i, config |-> config, ti |-> ti,
     pc |-> pc, result |-> result]

\* the locals at the first loop test of variant p, from the call's arguments
InitialRun(p) ==
    [policy |-> p, queue |-> <<Configuration(<<>>, ntm.start_state, input_string)>>,
     steps |-> 0, explored |-> <<>>, current_level |-> 0, i |-> 0,
     config |-> NoConfig, ti |-> 0, pc |-> "while", result |-> "none"]

\* simulate_ntm read as a function: the one statement that runs next in s
StepOf(s) ==
    CASE s.pc = "while" ->
            IF s.queue # <<>> /\ s.steps < max_depth
            THEN [s EXCEPT !.current_level = Len(s.queue), !.i = 0, !.pc = "for"]
            ELSE [s EXCEPT !.pc = "done", !.result = "timed out"]
      [] s.pc = "for" ->
            IF s.i < s.current_level
            THEN [s EXCEPT !.config = Head(s.queue), !.queue = Tail(s.queue),
                           !.explored = Append(s.explored, Head(s.queue)),
                           !.i = s.i + 1, !.pc = "check"]
            ELSE [s EXCEPT !.steps = s.steps + 1, !.pc = "while"]
      [] s.pc = "check" ->
            IF s.config.state = ntm.accept_state
            THEN [s EXCEPT !.pc = "done", !.result = "accept"]
            ELSE IF s.config.state = ntm.reject_state
            THEN IF s.policy = "Eager"
                 THEN [s EXCEPT !.pc = "done", !.result = "reject"]
                 ELSE [s EXCEPT !.pc = "for"]
            ELSE [s EXCEPT !.ti = 1, !.pc = "trans"]
      [] s.pc = "trans" ->
            IF s.ti <= Len(ntm.transitions)
            THEN IF Matches(s.config, ntm.transitions[s.ti])
                 THEN [s EXCEPT !.queue = Append(s.queue,
                                     Successor(s.config, ntm.transitions[s.ti])),
                                !.ti = s.ti + 1]
                 ELSE [s EXCEPT !.ti = s.ti + 1]
            ELSE [s EXCEPT !.pc = "for"]
      [] OTHER -> s

\* C16: a run starts in the state its arguments fix and every step of it leads
\* to the one state that follows from the current one, so two runs with the
\* same machine, input, depth bound and policy, stepped side by side, hold the
\* same frontier, trace and level counter at every step and end alike.
C16_Deterministic ==
    /\ RunState = InitialRun(policy)
    /\ [][RunState' = StepOf(RunState) /\ UNCHANGED args]_vars

\* a branching run that has ended after several levels
C16_Witness ==
    /\ pc = "done" /\ steps >= 2 /\ Len(explored) >= 4
    /\ \E k \in 1..Len(explored) : OutDegree(explored[k]) >= 2

\* ----------------------------------------------------------------- C20
RECURSIVE RunToEnd(_)
\* the locals at the return of the run that is in s
RunToEnd(s) == IF s.pc = "done" THEN s ELSE RunToEnd(StepOf(s))

\* C20: when the Eager run has returned accept, the Exhaustive run on the same
\* arguments returns on acceptance too, with the same trace and level count.
C20_EagerAcceptIsExhaustiveAccept ==
    (policy = "Eager" /\ pc = "done" /\ result = "accept") =>
        LET x == RunToEnd(InitialRun("Exhaustive"))
        IN  /\ x.result = "accept"
            /\ x.explored = explored
            /\ x.steps = steps

\* an Eager run accepted after more than one level
C20_Witness ==
    /\ policy = "Eager" /\ pc = "done" /\ result = "accept"
    /\ steps >= 2 /\ Len(explored) >= 3

\* ----------------------------------------------------------------- C17
InitialConfiguration == Configuration(<<>>, ntm.start_state, input_string)

\* the successors of c, one per matching rule, as a set
SuccessorSet(c) ==
    { Successor(c, ntm.transitions[n]) :
        n \in {m \in 1..Len(ntm.transitions) : Matches(c, ntm.transitions[m])} }

RECURSIVE Level(_)
\* the configurations produced by exactly k transitions from the initial
\* configuration, along paths whose earlier configurations are not halting
Level(k) ==
    IF k = 0 THEN {InitialConfiguration}
    ELSE UNION { SuccessorSet(c) : c \in {d \in Level(k - 1) : ~IsTerminal(d)} }

\* the run stands inside a level (between the snapshot and steps += 1)
InLevel == pc \in {"for", "check", "trans"} \/ (pc = "done" /\ result # "timed out")

\* C17: the configuration dequeued while the level counter is k is k
\* transitions away from the initial configuration; in the frontier the
\* configurations still waiting in level k come first and those enqueued
\* during it, k + 1 transitions away, wait behind them; the trace starts with
\* the initial configuration and lists depths in non-decreasing order.
C17_LevelIsStepCount ==
    LET L == [k \in 0..(steps + 1) |-> Level(k)]
        waiting == IF InLevel THEN current_level - i ELSE Len(queue)
    IN  /\ explored # <<>> => explored[1] = InitialConfiguration
        /\ pc \in {"check", "trans"} => config \in L[steps]
        /\ \A n \in 1..Len(queue) :
              queue[n] \in (IF n <= waiting THEN L[steps] ELSE L[steps + 1])
        /\ \A n \in 1..Len(explored) : \E k \in 0..steps : explored[n] \in L[k]
        /\ \A n \in 1..(Len(explored) - 1) :
              \E k \in 0..steps : \E m \in k..steps :
                  explored[n] \in L[k] /\ explored[n + 1] \in L[m]

\* the second configuration of level 2 has been dequeued
C17_Witness ==
    /\ pc = "check" /\ steps = 2 /\ i >= 2
    /\ queue # <<>> /\ current_level > i

\* ----------------------------------------------------------------- C18
\* C18: a Left transition always finds a cell to pop, the one the write step
\* has just appended, also at the left edge: the successor keeps the left of
\* its predecessor, and its right is that cell, then the predecessor's right
\* without its first element, then one blank.
C18_LeftMoveNeverFails ==
    /\ [](pc = "trans" /\ ti <= Len(ntm.transitions) =>
            Len(NewLeft(config, CurrentTransition)) >= 1)
    /\ [][(FireTransition /\ CurrentTransition.move_direction = "L") =>
            /\ Last(queue').left = config.left
            /\ Last(queue').right =
                   <<Last(NewLeft(config, CurrentTransition))>>
                       \o RestOfRight(config) \o <<Blank>>]_vars

\* a Left rule has fired with the head at the left edge
C18_Witness ==
    /\ pc = "trans" /\ ti > 1
    /\ ntm.transitions[ti - 1].move_direction = "L"
    /\ Matches(config, ntm.transitions[ti - 1])
    /\ config.left = <<>>
    /\ queue # <<>> /\ Last(queue).left = <<>>

\* ----------------------------------------------------------------- C19
\* an accepting configuration is at most n transitions away
AcceptWithin(n) == \E k \in 0..n : \E c \in Level(k) : c.state = ntm.accept_state

\* C19: an Exhaustive run with depth bound D ends accepted exactly when an
\* accepting configuration is at most D - 1 transitions away along non-halting
\* configurations; when the nearest one is exactly D away, it is left in the
\* frontier, never dequeued, and the run ends timed out.
C19_ExhaustiveAcceptsWithinBound ==
    (policy = "Exhaustive" /\ pc = "done") =>
        /\ result = "accept" <=> AcceptWithin(max_depth - 1)
        /\ (~AcceptWithin(max_depth - 1) /\ AcceptWithin(max_depth)) =>
              /\ result = "timed out"
              /\ \E n \in 1..Len(queue) : queue[n].state = ntm.accept_state
              /\ \A n \in 1..Len(explored) : explored[n].state # ntm.accept_state

\* an accepting configuration exactly max_depth away, left in the frontier
C19_Witness ==
    /\ policy = "Exhaustive" /\ pc = "done" /\ result = "timed out"
    /\ max_depth >= 2 /\ steps = max_depth
    /\ ~AcceptWithin(max_depth - 1)
    /\ \E n \in 1..Len(queue) : queue[n].state = ntm.accept_state

====
